---- MODULE Spec2Model ----
(***************************************************************************)
(* A model of jsonxx (src/jsonxx.cc): the token matcher, the scalar        *)
(* parsers, the recursive Value / Array / Object parsers over a            *)
(* std::istream, the heap of Values they allocate, and the JSON and XML    *)
(* serializers.                                                            *)
(*                                                                         *)
(* Text is a sequence of bytes (0..255).  The stream is modelled with the  *)
(* state bits of std::basic_ios as C++11 defines them: get, peek, putback  *)
(* and ws are unformatted input functions that start with a sentry, so     *)
(* they do nothing but set failbit on a stream that is not good().         *)
(***************************************************************************)
EXTENDS Integers, Sequences, FiniteSets, TLC

VARIABLES
    strict,      \* settings::strict
    charSigned,  \* the build: whether plain char is signed (implementation-defined)
    scen,        \* the function the caller invoked
    pattern,     \* match: the pattern argument
    input,       \* the std::istream
    m,           \* match: cur, ch and the position in the function
    ps,          \* parse_string: ch, delimiter, *value and the position in the function
    heap,        \* the free store: every Value, String, Array and Object allocated so far
    stack,       \* the activation records of Value::parse, Array::parse, Object::parse
    ret,         \* the value the last call returned: "none", "true", "false"
    root,        \* the object the caller passed to parse
    first,       \* the object and the text of the first parse, kept while the text
                 \* written for it is parsed into a second object
    calls,       \* the number of calls the caller has made
    out,         \* the std::ostream the caller serialized to
    xml,         \* the std::string Object::xml or Array::xml returned
    steps        \* the number of steps taken since the current call began

vars == <<strict, charSigned, scen, pattern, input, m, ps, heap, stack, ret,
          root, first, calls, out, xml, steps>>

(***************************************************************************)
(* Bounds of the model.                                                    *)
(***************************************************************************)
MaxLen == 4       \* the longest text of the exhaustive inputs of the three parsers
MaxLeafLen == 3   \* the longest text of the exhaustive inputs of match and parse_string
MaxNumLen == 3    \* the longest text of the exhaustive inputs of parse_number
MaxCalls == 2     \* the calls of parse on one object
MaxKeys == 2      \* the members of the generated object texts
MaxElems == 2     \* the elements of the generated array texts

(***************************************************************************)
(* Bytes.                                                                  *)
(***************************************************************************)
Ascii ==
    " !\"#$%&'()*+,-./0123456789:;<=>?@ABCDEFGHIJKLMNOPQRSTUVWXYZ[\\]^_ abcdefghijklmnopqrstuvwxyz{|}~"

\* The byte of a printable ASCII character, given as a string of length one
\* (the table has a blank in the place of the grave accent, byte 96).
Ord(c) == 31 + CHOOSE i \in 1..Len(Ascii) : SubSeq(Ascii, i, i) = c

\* The bytes of a string literal.
Bytes(s) == [i \in 1..Len(s) |-> Ord(SubSeq(s, i, i))]

Byte == 0..255
EOF == -1
BS == 8
TAB == 9
LF == 10
VT == 11
FF == 12
CR == 13
SP == Ord(" ")
DQUOTE == Ord("\"")
SQUOTE == Ord("'")
BACKSLASH == Ord("\\")
SLASH == Ord("/")
COMMA == Ord(",")
LBRACKET == Ord("[")
RBRACKET == Ord("]")
RBRACE == Ord("}")
DIGIT0 == Ord("0")
DIGIT9 == Ord("9")
PLUS == Ord("+")
MINUS == Ord("-")
DOT == Ord(".")
LOWER_E == Ord("e")
UPPER_E == Ord("E")
LOWER_A == Ord("a")
LOWER_B == Ord("b")
LOWER_F == Ord("f")
LOWER_N == Ord("n")
LOWER_R == Ord("r")
LOWER_T == Ord("t")
LOWER_U == Ord("u")
COLON == Ord(":")
LESS == Ord("<")
GREATER == Ord(">")

\* The patterns the parsers pass to match.
PatTrue == Bytes("true")
PatFalse == Bytes("false")
PatNull == Bytes("null")
PatDQuote == Bytes("\"")
PatLBrace == Bytes("{")
PatRBrace == Bytes("}")
PatLBracket == Bytes("[")
PatRBracket == Bytes("]")
PatComma == Bytes(",")
PatColon == Bytes(":")

\* std::isspace in the "C" locale.
IsSpace(c) == c \in {SP, TAB, LF, VT, FF, CR}
IsDigit(c) == c >= DIGIT0 /\ c <= DIGIT9

(***************************************************************************)
(* std::istream over a fixed character sequence.  pos is the index of the  *)
(* next character; underflow is a ghost bit: some get() found no character.*)
(***************************************************************************)
Stream(text) ==
    [buf |-> text, pos |-> 1, eof |-> FALSE, fail |-> FALSE, bad |-> FALSE,
     underflow |-> FALSE]

Good(s) == ~s.eof /\ ~s.fail /\ ~s.bad
\* operator bool / !fail()
Ok(s) == ~s.fail /\ ~s.bad
AtEnd(s) == s.pos > Len(s.buf)
Rest(s) == SubSeq(s.buf, s.pos, Len(s.buf))

RECURSIVE WsEnd(_, _)
\* The index of the first character at or after p that is not whitespace.
WsEnd(buf, p) ==
    IF p <= Len(buf) /\ IsSpace(buf[p]) THEN WsEnd(buf, p + 1) ELSE p

\* input >> std::ws
SkipWs(s) ==
    IF ~Good(s) THEN [s EXCEPT !.fail = TRUE]
    ELSE LET p == WsEnd(s.buf, s.pos)
         IN  [s EXCEPT !.pos = p, !.eof = (p > Len(s.buf))]

\* input.get(ch): the stream after the call, whether a character was
\* extracted, and the character (ch is left alone when none was).
Get(s, ch) ==
    IF ~Good(s) THEN
        [s |-> [s EXCEPT !.fail = TRUE, !.underflow = TRUE], got |-> FALSE, ch |-> ch]
    ELSE IF AtEnd(s) THEN
        [s |-> [s EXCEPT !.eof = TRUE, !.fail = TRUE, !.underflow = TRUE],
         got |-> FALSE, ch |-> ch]
    ELSE [s |-> [s EXCEPT !.pos = s.pos + 1], got |-> TRUE, ch |-> s.buf[s.pos]]

\* input.peek()
Peek(s) ==
    IF ~Good(s) THEN [s |-> [s EXCEPT !.fail = TRUE], c |-> EOF]
    ELSE IF AtEnd(s) THEN [s |-> [s EXCEPT !.eof = TRUE], c |-> EOF]
    ELSE [s |-> s, c |-> s.buf[s.pos]]

\* input.putback(c): clears eofbit first; the read-only buffer takes back
\* only the character that was read.
Putback(s, c) ==
    LET t == [s EXCEPT !.eof = FALSE]
    IN  IF ~Good(t) THEN [t EXCEPT !.fail = TRUE]
        ELSE IF t.pos > 1 /\ t.buf[t.pos - 1] = c THEN [t EXCEPT !.pos = t.pos - 1]
        ELSE [t EXCEPT !.bad = TRUE]

\* input.clear()
Clear(s) == [s EXCEPT !.eof = FALSE, !.fail = FALSE, !.bad = FALSE]

(***************************************************************************)
(* match, lines 21-39.  A frame holds the stream and the locals: cur is    *)
(* the number of pattern characters matched, pc is "loop" while the loop   *)
(* condition holds and "ret" once the function has returned ret.           *)
(***************************************************************************)
\* The loop condition of line 25, and the return of line 38 when it fails.
match_cond(pat, f) ==
    IF Ok(f.s) /\ ~f.s.eof /\ f.cur < Len(pat)
    THEN [f EXCEPT !.pc = "loop"]
    ELSE [f EXCEPT !.pc = "ret", !.ret = (f.cur = Len(pat))]

\* Lines 22-25: skip whitespace, cur(pattern), ch(0), first test of the loop.
match_begin(pat, s) ==
    match_cond(pat, [s |-> SkipWs(s), cur |-> 0, ch |-> 0, pc |-> "loop", ret |-> FALSE])

RECURSIVE match_putback(_, _, _)
\* Lines 29-32: push the matched prefix back, last character first.
match_putback(pat, s, cur) ==
    IF cur > 0 THEN match_putback(pat, Putback(s, pat[cur]), cur - 1) ELSE s

\* Lines 26-37: one iteration of the loop, then the next test of its condition.
match_body(pat, f) ==
    LET g == Get(f.s, f.ch)
    IN  IF g.ch # pat[f.cur + 1]
        THEN [f EXCEPT !.s = match_putback(pat, Putback(g.s, g.ch), f.cur),
                       !.ch = g.ch, !.pc = "ret", !.ret = FALSE]
        ELSE match_cond(pat, [f EXCEPT !.s = g.s, !.ch = g.ch, !.cur = f.cur + 1])

RECURSIVE match_run(_, _)
match_run(pat, f) == IF f.pc = "ret" THEN f ELSE match_run(pat, match_body(pat, f))

\* What the caller of match sees of the returned frame.
match_return(f) == [s |-> f.s, ret |-> f.ret]

\* bool match(const char* pattern, std::istream& input)
match(pat, s) == match_return(match_run(pat, match_begin(pat, s)))

(***************************************************************************)
(* Number: a decimal value neg * m * 10^e with m not divisible by 10       *)
(* (m = 0 goes with e = 0).  Exact for the numerals of the model, which    *)
(* have far fewer than the 15 significant digits a double holds.           *)
(***************************************************************************)
Zero == [neg |-> FALSE, m |-> 0, e |-> 0]

RECURSIVE Normalize(_, _, _)
Normalize(neg, mant, ex) ==
    IF mant = 0 THEN [neg |-> neg, m |-> 0, e |-> 0]
    ELSE IF mant % 10 = 0 THEN Normalize(neg, mant \div 10, ex + 1)
    ELSE [neg |-> neg, m |-> mant, e |-> ex]

\* operator== of two doubles (-0.0 equals 0.0).
NumEq(a, b) == a.m = b.m /\ a.e = b.e /\ (a.m = 0 \/ a.neg = b.neg)

IsSign(c) == c = PLUS \/ c = MINUS
IsExp(c) == c = LOWER_E \/ c = UPPER_E

RECURSIVE ScanDigits(_, _)
\* The index after the digits that start at p.
ScanDigits(buf, p) ==
    IF p <= Len(buf) /\ IsDigit(buf[p]) THEN ScanDigits(buf, p + 1) ELSE p

RECURSIVE DigitsValue(_, _, _, _)
\* The value of the digits buf[p..q-1], appended to acc.
DigitsValue(buf, p, q, acc) ==
    IF p >= q THEN acc ELSE DigitsValue(buf, p + 1, q, acc * 10 + (buf[p] - DIGIT0))

\* std::num_get<char>::do_get for double in the "C" locale, stage 2: the
\* characters accumulated from p on.  sign? digits* ('.' digits*)? and, once
\* a digit was seen, ('e' sign? digits*)?.
\* The digits buf[a..b-1] before the point are scanned: the fraction.
NumScanFraction(buf, p, a, b) ==
    [neg |-> p <= Len(buf) /\ buf[p] = MINUS, a |-> a, b |-> b,
     hasDot |-> b <= Len(buf) /\ buf[b] = DOT,
     c |-> IF b <= Len(buf) /\ buf[b] = DOT THEN ScanDigits(buf, b + 1) ELSE b]

\* The mantissa mt is scanned: whether an exponent follows, and where its
\* digits start.
NumScanExponent(buf, mt, mantissa) ==
    [neg |-> mt.neg, a |-> mt.a, b |-> mt.b, hasDot |-> mt.hasDot, c |-> mt.c,
     mantissa |-> mantissa,
     hasExp |-> mantissa /\ mt.c <= Len(buf) /\ IsExp(buf[mt.c]),
     eneg |-> mantissa /\ mt.c + 1 <= Len(buf) /\ IsExp(buf[mt.c])
                  /\ buf[mt.c + 1] = MINUS,
     d |-> IF mantissa /\ mt.c <= Len(buf) /\ IsExp(buf[mt.c])
           THEN (IF mt.c + 1 <= Len(buf) /\ IsSign(buf[mt.c + 1]) THEN mt.c + 2
                 ELSE mt.c + 1)
           ELSE mt.c]

\* The field ends at q.  Stage 3: strtod must convert the whole field.
NumScanEnd(sc, q) ==
    [neg |-> sc.neg, a |-> sc.a, b |-> sc.b, hasDot |-> sc.hasDot, c |-> sc.c,
     mantissa |-> sc.mantissa, hasExp |-> sc.hasExp, eneg |-> sc.eneg, d |-> sc.d,
     q |-> q, valid |-> sc.mantissa /\ (sc.hasExp => q > sc.d)]

NumScanDigits(buf, sc) ==
    NumScanEnd(sc, IF sc.hasExp THEN ScanDigits(buf, sc.d) ELSE sc.c)

NumScanMantissa(buf, mt) ==
    NumScanDigits(buf, NumScanExponent(buf, mt,
                           (mt.b > mt.a) \/ (mt.hasDot /\ mt.c > mt.b + 1)))

NumScanSign(buf, p, a) == NumScanMantissa(buf, NumScanFraction(buf, p, a, ScanDigits(buf, a)))

NumScan(buf, p) ==
    NumScanSign(buf, p, IF p <= Len(buf) /\ IsSign(buf[p]) THEN p + 1 ELSE p)

\* The double the accumulated field converts to.
NumValue(buf, sc) ==
    LET ipart == DigitsValue(buf, sc.a, sc.b, 0)
        mant == IF sc.hasDot THEN DigitsValue(buf, sc.b + 1, sc.c, ipart) ELSE ipart
        frac == IF sc.hasDot THEN sc.c - (sc.b + 1) ELSE 0
        ex == IF sc.hasExp THEN DigitsValue(buf, sc.d, sc.q, 0) ELSE 0
    IN  Normalize(sc.neg, mant, (IF sc.eneg THEN 0 - ex ELSE ex) - frac)

\* input >> *value for a double: the sentry (which skips whitespace), then
\* num_get.  A field that is no number stores 0 and sets failbit; the
\* characters accumulated stay consumed.  Reaching the end of the sequence
\* sets eofbit.
ExtractField(s, sc) ==
    [s |-> [s EXCEPT !.pos = sc.q, !.eof = (sc.q > Len(s.buf)), !.fail = ~sc.valid],
     val |-> IF sc.valid THEN NumValue(s.buf, sc) ELSE Zero]

ExtractAt(s, old, p) ==
    IF p > Len(s.buf)
    THEN [s |-> [s EXCEPT !.pos = p, !.eof = TRUE, !.fail = TRUE], val |-> old]
    ELSE ExtractField(s, NumScan(s.buf, p))

ExtractDouble(s, old) ==
    IF ~Good(s) THEN [s |-> [s EXCEPT !.fail = TRUE], val |-> old]
    ELSE ExtractAt(s, old, WsEnd(s.buf, s.pos))

\* bool parse_number(std::istream& input, Number* value), lines 120-128
\* Lines 123-127, on the stream and the value x the extraction left.
parse_number_fail(x) ==
    IF x.s.fail \/ x.s.bad
    THEN [s |-> Clear(x.s), ret |-> FALSE, val |-> x.val]
    ELSE [s |-> x.s, ret |-> TRUE, val |-> x.val]

parse_number(s, old) == parse_number_fail(ExtractDouble(SkipWs(s), old))

(***************************************************************************)
(* parse_string, lines 41-96.  ch is declared without a value: until the   *)
(* first get() that extracts a character it holds whatever the build left  *)
(* there, one of Uninit.                                                   *)
(***************************************************************************)
Uninit == {0, DQUOTE, BACKSLASH}

\* Lines 91-95.
parse_string_end(f) ==
    [f EXCEPT !.pc = "ret", !.ret = (Ok(f.s) /\ f.ch = f.delimiter)]

\* The loop condition of line 53.
parse_string_cond(f) ==
    IF ~f.s.eof /\ Good(f.s) THEN [f EXCEPT !.pc = "loop"] ELSE parse_string_end(f)

\* Lines 42-53: the opening delimiter, then the first test of the loop.
\* Lines 47-50, lenient: a single quote opens the string as well.
parse_string_single(f, pk) ==
    IF pk.c # SQUOTE
    THEN [f EXCEPT !.s = pk.s, !.delimiter = SQUOTE, !.pc = "ret"]
    ELSE parse_string_cond(
             [f EXCEPT !.s = Get(pk.s, f.ch).s, !.ch = Get(pk.s, f.ch).ch,
                       !.delimiter = SQUOTE])

\* Lines 44-52, q being what match("\"", input) returned.
parse_string_open(f, q) ==
    IF q.ret THEN parse_string_cond([f EXCEPT !.s = q.s])
    ELSE IF strict THEN [f EXCEPT !.s = q.s, !.pc = "ret"]
    ELSE parse_string_single([f EXCEPT !.s = q.s], Peek(q.s))

parse_string_begin(s, ch0, old) ==
    parse_string_open([s |-> s, ch |-> ch0, delimiter |-> DQUOTE, value |-> old,
                       pc |-> "loop", ret |-> FALSE],
                      match(PatDQuote, s))

\* Lines 60-86: what the character after a backslash appends.
Unescape(ch, delimiter) ==
    IF ch = BACKSLASH \/ ch = SLASH THEN <<ch>>
    ELSE IF ch = LOWER_B THEN <<BS>>
    ELSE IF ch = LOWER_F THEN <<FF>>
    ELSE IF ch = LOWER_N THEN <<LF>>
    ELSE IF ch = LOWER_R THEN <<CR>>
    ELSE IF ch = LOWER_T THEN <<TAB>>
    ELSE IF ch # delimiter THEN <<BACKSLASH, ch>>
    ELSE <<ch>>

\* Lines 54-90: one iteration of the loop, then the next test of its condition.
parse_string_body(f) ==
    LET g == Get(f.s, f.ch)
    IN  IF g.ch = f.delimiter THEN parse_string_end([f EXCEPT !.s = g.s, !.ch = g.ch])
        ELSE IF g.ch = BACKSLASH
        THEN LET h == Get(g.s, g.ch)
             IN  parse_string_cond(
                     [f EXCEPT !.s = h.s, !.ch = h.ch,
                               !.value = f.value \o Unescape(h.ch, f.delimiter)])
        ELSE parse_string_cond(
                 [f EXCEPT !.s = g.s, !.ch = g.ch, !.value = Append(f.value, g.ch)])

RECURSIVE parse_string_run(_)
parse_string_run(f) == IF f.pc = "ret" THEN f ELSE parse_string_run(parse_string_body(f))

\* bool parse_string(std::istream& input, String* value)
parse_string_return(f) == [s |-> f.s, ret |-> f.ret, value |-> f.value]

parse_string(s, ch0, old) ==
    parse_string_return(parse_string_run(parse_string_begin(s, ch0, old)))

\* static bool parse_bool(std::istream& input, Boolean* value), lines 98-108
\* Lines 103-107, f being what match("false", input) returned.
parse_bool_false(f, old) ==
    IF f.ret THEN [s |-> f.s, ret |-> TRUE, val |-> FALSE]
    ELSE [s |-> f.s, ret |-> FALSE, val |-> old]

\* Lines 99-102, t being what match("true", input) returned.
parse_bool_true(t, old) ==
    IF t.ret THEN [s |-> t.s, ret |-> TRUE, val |-> TRUE]
    ELSE parse_bool_false(match(PatFalse, t.s), old)

parse_bool(s, old) == parse_bool_true(match(PatTrue, s), old)

\* static bool parse_null(std::istream& input), lines 110-118
\* Lines 114-116, lenient: nothing before a comma is null.
parse_null_comma(pk) == [s |-> pk.s, ret |-> (pk.c = COMMA)]

\* Lines 111-117, n being what match("null", input) returned.
parse_null_match(n) ==
    IF n.ret THEN [s |-> n.s, ret |-> TRUE]
    ELSE IF strict THEN [s |-> n.s, ret |-> FALSE]
    ELSE parse_null_comma(Peek(n.s))

parse_null(s) == parse_null_match(match(PatNull, s))

(***************************************************************************)
(* stream << double with the stream's defaults: printf's %g with the       *)
(* precision 6 a std::ostream starts with.                                 *)
(***************************************************************************)
Precision == 6

RECURSIVE Pow10(_)
Pow10(k) == IF k = 0 THEN 1 ELSE 10 * Pow10(k - 1)

RECURSIVE Digits(_)
\* The decimal digits of n > 0, as bytes.
Digits(n) ==
    IF n < 10 THEN <<DIGIT0 + n>> ELSE Append(Digits(n \div 10), DIGIT0 + (n % 10))

Zeros(k) == [i \in 1..k |-> DIGIT0]

\* The mantissa rounded to Precision significant digits (to nearest, ties to
\* even), trailing zeros dropped, and the decimal exponent of its first digit.
RoundMantissa(v) ==
    LET nd == Len(Digits(v.m))
        k == nd - Precision
        q == v.m \div Pow10(k)
        r == v.m % Pow10(k)
        half == 5 * Pow10(k - 1)
        up == r > half \/ (r = half /\ q % 2 = 1)
        w == Normalize(v.neg, (IF up THEN q + 1 ELSE q), 0)
    IN  IF nd <= Precision
        THEN [digits |-> Digits(v.m), x |-> nd - 1 + v.e]
        ELSE [digits |-> Digits(w.m), x |-> Len(Digits(w.m)) - 1 + w.e + k + v.e]

FormatDigits(v, d, x) ==
    LET sign == IF v.neg THEN <<MINUS>> ELSE <<>>
        ax == IF x < 0 THEN 0 - x ELSE x
    IN  IF v.m = 0 THEN sign \o <<DIGIT0>>
        ELSE IF x < 0 - 4 \/ x >= Precision
        THEN sign \o <<d[1]>>
                  \o (IF Len(d) > 1 THEN <<DOT>> \o SubSeq(d, 2, Len(d)) ELSE <<>>)
                  \o <<LOWER_E, (IF x < 0 THEN MINUS ELSE PLUS)>>
                  \o (IF ax < 10 THEN <<DIGIT0>> ELSE <<>>) \o Digits(ax)
        ELSE IF x >= 0
        THEN sign \o (IF Len(d) >= x + 1 THEN SubSeq(d, 1, x + 1)
                                         ELSE d \o Zeros(x + 1 - Len(d)))
                  \o (IF Len(d) > x + 1 THEN <<DOT>> \o SubSeq(d, x + 2, Len(d)) ELSE <<>>)
        ELSE sign \o <<DIGIT0, DOT>> \o Zeros(0 - x - 1) \o d

FormatRounded(v, rm) == FormatDigits(v, rm.digits, rm.x)

FormatNumber(v) == FormatRounded(v, RoundMantissa(v))

(***************************************************************************)
(* The free store.  A cell is a Value, a std::string, an Array or an       *)
(* Object; its address is its index in heap, and 0 is no address.  The     *)
(* members of Value's anonymous union are num, bool and ptr (the three     *)
(* pointer members share ptr).  delete leaves the cell in place, not       *)
(* alive; deleting it again is recorded in refreed.                        *)
(***************************************************************************)
Cell(kind) ==
    [kind |-> kind, alive |-> TRUE, refreed |-> FALSE, type_ |-> "INVALID_",
     num |-> Zero, bool |-> FALSE, ptr |-> 0, str |-> <<>>, values_ |-> <<>>,
     value_map_ |-> <<>>]

\* Value::Value() : type_(INVALID_), line 177
NewValue == Cell("Value")
\* Array::Array() : values_(), line 231
NewArray == Cell("Array")
\* Object::Object() : value_map_(), line 130
NewObject == Cell("Object")
\* new std::string(), line 196
NewString == Cell("String")

RECURSIVE Delete(_, _)
RECURSIVE DeleteAll(_, _)
\* delete p: the destructor, then the release of the cell.  ~Object (lines
\* 132-137) and ~Array (lines 233-238) delete every child; ~Value releases
\* the payload as Value::reset does (lines 179-189).
Delete(h, a) ==
    IF a = 0 THEN h
    ELSE IF ~h[a].alive THEN [h EXCEPT ![a].refreed = TRUE]
    ELSE LET c == h[a]
             kids == IF c.kind = "Array" THEN c.values_
                     ELSE IF c.kind = "Object"
                     THEN [i \in 1..Len(c.value_map_) |-> c.value_map_[i].second]
                     ELSE IF c.kind = "Value" /\ c.type_ \in {"STRING_", "OBJECT_", "ARRAY_"}
                     THEN <<c.ptr>>
                     ELSE <<>>
         IN  DeleteAll([h EXCEPT ![a].alive = FALSE], kids)

DeleteAll(h, as) ==
    IF as = <<>> THEN h ELSE DeleteAll(Delete(h, Head(as)), Tail(as))

\* void Value::reset(), lines 179-189: the payload is deleted; type_ and the
\* pointer are left as they were.
reset(h, a) ==
    IF h[a].type_ \in {"STRING_", "OBJECT_", "ARRAY_"} THEN Delete(h, h[a].ptr) ELSE h

RECURSIVE StrLess(_, _)
\* std::less<std::string>: lexicographic on the bytes, as unsigned values.
StrLess(a, b) ==
    IF b = <<>> THEN FALSE
    ELSE IF a = <<>> THEN TRUE
    ELSE IF Head(a) # Head(b) THEN Head(a) < Head(b)
    ELSE StrLess(Tail(a), Tail(b))

\* The number of entries of the map whose key is less than key.
LowerBound(map, key) == Cardinality({i \in 1..Len(map) : StrLess(map[i].first, key)})

\* A map that keeps its entries in the order of their insertion.
MapAssignUnordered(map, key, v) ==
    IF \E i \in 1..Len(map) : map[i].first = key
    THEN [i \in 1..Len(map) |->
             IF map[i].first = key THEN [first |-> key, second |-> v] ELSE map[i]]
    ELSE Append(map, [first |-> key, second |-> v])

\* object.value_map_[key] = v, line 166: std::map keeps its entries in key
\* order; an entry with an equal key has its value replaced.
MapAssign(map, key, v) ==
    LET n == LowerBound(map, key)
    IN  IF n < Len(map) /\ map[n + 1].first = key
        THEN [map EXCEPT ![n + 1].second = v]
        ELSE SubSeq(map, 1, n) \o <<[first |-> key, second |-> v]>>
                               \o SubSeq(map, n + 1, Len(map))

\* const std::map<std::string, Value*>& Object::kv_map(): what begin() .. end() visits.
kv_map(h, a) == h[a].value_map_

(***************************************************************************)
(* The JSON serializer, lines 262-357.  The text written is a sequence of  *)
(* bytes.                                                                  *)
(***************************************************************************)
\* std::setw(6), line 294
HexWidth == 6

RECURSIVE Concat(_)
\* The texts of ts, one after the other.
Concat(ts) == IF ts = <<>> THEN <<>> ELSE Head(ts) \o Concat(Tail(ts))

\* The value of *i, a char holding the byte b: negative from 128 on where
\* char is signed.
CharValue(b) == IF charSigned /\ b >= 128 THEN b - 256 ELSE b

HexDigit(d) == IF d < 10 THEN DIGIT0 + d ELSE LOWER_A + (d - 10)

RECURSIVE Hex(_)
\* std::hex of n >= 0.
Hex(n) == IF n < 16 THEN <<HexDigit(n)>> ELSE Append(Hex(n \div 16), HexDigit(n % 16))

\* std::hex of the int n, -128 <= n < 256: a negative int is written as the
\* 32-bit unsigned value of the same bits.
HexInt(n) == IF n < 0 THEN Bytes("ffffff") \o Hex(n + 256) ELSE Hex(n)

\* std::setw(w) << std::setfill(fill): pads on the left, never truncates.
SetW(w, fill, t) == IF Len(t) >= w THEN t ELSE [i \in 1..(w - Len(t)) |-> fill] \o t

\* Lines 267-300: what one character of the string writes.
stream_char(b) ==
    IF b = DQUOTE THEN <<BACKSLASH, DQUOTE>>
    ELSE IF b = BACKSLASH THEN <<BACKSLASH, BACKSLASH>>
    ELSE IF b = SLASH THEN <<BACKSLASH, SLASH>>
    ELSE IF b = BS THEN <<BACKSLASH, LOWER_B>>
    ELSE IF b = FF THEN <<BACKSLASH, LOWER_F>>
    ELSE IF b = LF THEN <<BACKSLASH, LOWER_N>>
    ELSE IF b = CR THEN <<BACKSLASH, LOWER_R>>
    ELSE IF b = TAB THEN <<BACKSLASH, LOWER_T>>
    ELSE IF CharValue(b) < SP THEN <<BACKSLASH, LOWER_U>> \o SetW(HexWidth, DIGIT0, HexInt(CharValue(b)))
    ELSE <<b>>

\* static std::ostream& stream_string(std::ostream&, const std::string&)
stream_string(str) ==
    <<DQUOTE>> \o Concat([i \in 1..Len(str) |-> stream_char(str[i])]) \o <<DQUOTE>>

\* Value::is<T>(), from jsonxx.h: the tag names the variant.
is(c, T) == c.type_ = T

RECURSIVE stream_Value(_, _)
RECURSIVE stream_Array(_, _)
RECURSIVE stream_Object(_, _)
RECURSIVE stream_values(_, _)
RECURSIVE stream_kv(_, _)

\* std::ostream& operator<<(std::ostream&, const jsonxx::Value&), lines 308-328
stream_Value(h, a) ==
    IF is(h[a], "NUMBER_") THEN FormatNumber(h[a].num)
    ELSE IF is(h[a], "STRING_") THEN stream_string(h[h[a].ptr].str)
    ELSE IF is(h[a], "BOOL_") THEN (IF h[a].bool THEN PatTrue ELSE PatFalse)
    ELSE IF is(h[a], "NULL_") THEN PatNull
    ELSE IF is(h[a], "OBJECT_") THEN stream_Object(h, h[a].ptr)
    ELSE IF is(h[a], "ARRAY_") THEN stream_Array(h, h[a].ptr)
    ELSE <<>>

\* Lines 333-340: the elements vs, ", " between two of them.
stream_values(h, vs) ==
    IF vs = <<>> THEN <<>>
    ELSE stream_Value(h, Head(vs))
             \o (IF Len(vs) > 1 THEN <<COMMA, SP>> ELSE <<>>)
             \o stream_values(h, Tail(vs))

\* std::ostream& operator<<(std::ostream&, const jsonxx::Array&), lines 330-342
stream_Array(h, a) == PatLBracket \o stream_values(h, h[a].values_) \o PatRBracket

\* Lines 347-355: the entries kv from begin() to end(), ", " between two.
stream_kv(h, kv) ==
    IF kv = <<>> THEN <<>>
    ELSE stream_string(Head(kv).first) \o <<COLON, SP>> \o stream_Value(h, Head(kv).second)
             \o (IF Len(kv) > 1 THEN <<COMMA, SP>> ELSE <<>>)
             \o stream_kv(h, Tail(kv))

\* std::ostream& operator<<(std::ostream&, const jsonxx::Object&), lines 344-357
stream_Object(h, a) == PatLBrace \o stream_kv(h, kv_map(h, a)) \o PatRBrace

(***************************************************************************)
(* The XML serializer, lines 365-534.                                      *)
(***************************************************************************)
\* std::string escape_string(const std::string&), lines 365-378
escape_string(str) ==
    Concat([i \in 1..Len(str) |->
               IF str[i] = DQUOTE THEN <<BACKSLASH, DQUOTE>>
               ELSE IF str[i] = SQUOTE THEN <<BACKSLASH, SQUOTE>>
               ELSE <<str[i]>>])

\* std::string escape_tag(const std::string&), lines 380-393
escape_tag(str) ==
    Concat([i \in 1..Len(str) |->
               IF str[i] = LESS THEN Bytes("&lt;")
               ELSE IF str[i] = GREATER THEN Bytes("&gt;")
               ELSE <<str[i]>>])

\* The jsonx tag names of lines 412-419 and 437-444, by type character.
json_name(type) ==
    IF type = "b" THEN Bytes("json:boolean")
    ELSE IF type = "a" THEN Bytes("json:array")
    ELSE IF type = "s" THEN Bytes("json:string")
    ELSE IF type = "o" THEN Bytes("json:object")
    ELSE IF type = "n" THEN Bytes("json:number")
    ELSE Bytes("json:null")

\* std::string open_tag(unsigned format, char type, const std::string& name,
\* const std::string& attr), lines 395-425
open_tag(format, type, name, attr) ==
    IF format = "jxml"
    THEN <<LESS>> \o Bytes("j son=\"") \o Bytes(type)
             \o (IF name = <<>> THEN <<>> ELSE <<COLON>> \o escape_string(name))
             \o <<DQUOTE>> \o attr \o <<GREATER>>
    ELSE IF format = "jsonx"
    THEN <<LESS>> \o json_name(type)
             \o (IF name = <<>> THEN <<>>
                 ELSE Bytes(" name=\"") \o escape_string(name) \o <<DQUOTE>>)
             \o attr \o <<GREATER>>
    ELSE <<>>

\* std::string close_tag(unsigned format, char type), lines 427-447
close_tag(format, type) ==
    IF format = "jxml" THEN Bytes("</j>")
    ELSE IF format = "jsonx" THEN <<LESS, SLASH>> \o json_name(type) \o <<GREATER>>
    ELSE <<>>

\* const std::string tab(depth, '\t'), line 451
Tabs(depth) == [i \in 1..depth |-> TAB]

RECURSIVE tag(_, _, _, _, _, _)
RECURSIVE tag_values(_, _, _, _)
RECURSIVE tag_kv(_, _, _, _)

\* Lines 466-467: a tag per element, without a name.
tag_values(h, format, depth, vs) ==
    IF vs = <<>> THEN <<>>
    ELSE tag(h, format, depth, <<>>, h[Head(vs)], <<>>) \o tag_values(h, format, depth, Tail(vs))

\* Lines 479-480: a tag per entry of kv_map(), named by its key.
tag_kv(h, format, depth, kv) ==
    IF kv = <<>> THEN <<>>
    ELSE tag(h, format, depth, Head(kv).first, h[Head(kv).second], <<>>)
             \o tag_kv(h, format, depth, Tail(kv))

\* A leaf: open tag, text, close tag, newline (lines 460-463, 473-476, 486-489).
tag_leaf(format, depth, name, type, text) ==
    Tabs(depth) \o open_tag(format, type, name, <<>>) \o text \o close_tag(format, type)
        \o <<LF>>

\* A container: its children between the open and the close tag, each on
\* lines of its own (lines 468-470 and 481-483).
tag_node(format, depth, name, type, attr, children) ==
    Tabs(depth) \o open_tag(format, type, name, attr) \o <<LF>> \o children
        \o Tabs(depth) \o close_tag(format, type) \o <<LF>>

\* std::string tag(unsigned format, unsigned depth, const std::string& name,
\* const jsonxx::Value& t, const std::string& attr), lines 449-491
tag(h, format, depth, name, t, attr) ==
    IF t.type_ = "BOOL_"
    THEN tag_leaf(format, depth, name, "b", (IF t.bool THEN PatTrue ELSE PatFalse))
    ELSE IF t.type_ = "ARRAY_"
    THEN tag_node(format, depth, name, "a", attr,
                  tag_values(h, format, depth + 1, h[t.ptr].values_))
    ELSE IF t.type_ = "STRING_"
    THEN tag_leaf(format, depth, name, "s", escape_tag(h[t.ptr].str))
    ELSE IF t.type_ = "OBJECT_"
    THEN tag_node(format, depth, name, "o", attr,
                  tag_kv(h, format, depth + 1, kv_map(h, t.ptr)))
    ELSE IF t.type_ = "NUMBER_"
    THEN tag_leaf(format, depth, name, "n", FormatNumber(t.num))
    ELSE Tabs(depth) \o open_tag(format, "0", name, Bytes(" /")) \o <<LF>>

\* JSONXX_XML_TAG, a macro of jsonxx.h: an XML comment naming the library.
JSONXX_XML_TAG == Bytes("<!-- jsonxx -->")

\* const char* defheader[2], lines 493-499
defheader(format) ==
    Bytes("<?xml version=\"1.0\" encoding=\"UTF-8\"?>") \o JSONXX_XML_TAG \o <<LF>>

\* const char* defrootattrib[2], lines 500-506; format::jsonx is its first index.
defrootattrib(format) ==
    IF format = "jsonx"
    THEN Bytes(" xsi:schemaLocation=\"http://www.datapower.com/schemas/json jsonx.xsd\"")
             \o Bytes(" xmlns:xsi=\"http://www.w3.org/2001/XMLSchema-instance\"")
             \o Bytes(" xmlns:json=\"http://www.ibm.com/xmlns/prod/2009/jsonx\"")
    ELSE <<>>

\* std::string Object::xml(unsigned format, const std::string& header,
\* const std::string& attrib) const, lines 510-521, and Array::xml, lines
\* 523-534: a Value v that points at the container for the time of the walk.
xml_of(h, a, format, header, attrib) ==
    (IF header = <<>> THEN defheader(format) ELSE header)
        \o tag(h, format, 0, <<>>,
               [NewValue EXCEPT !.type_ = (IF h[a].kind = "Object" THEN "OBJECT_" ELSE "ARRAY_"),
                                !.ptr = a],
               (IF attrib = <<>> THEN defrootattrib(format) ELSE attrib))

(***************************************************************************)
(* Activation records of the three recursive parsers.                      *)
(***************************************************************************)
Frame(fn, self) == [fn |-> fn, pc |-> "start", self |-> self, v |-> 0, key |-> <<>>]
Top == stack[Len(stack)]
Pop == SubSeq(stack, 1, Len(stack) - 1)
At(fn, pc) == stack # <<>> /\ Top.fn = fn /\ Top.pc = pc
Goto(pc) == [stack EXCEPT ![Len(stack)].pc = pc]
Str(b) == IF b THEN "true" ELSE "false"

\* The step's effect on the stream, the free store, the stack and the
\* returned value; nothing else changes.
Step(inp, hp, stk, r) ==
    /\ input' = inp
    /\ heap' = hp
    /\ stack' = stk
    /\ ret' = r
    /\ steps' = steps + 1
    /\ UNCHANGED <<strict, charSigned, scen, pattern, m, ps, root, first, calls, out, xml>>

\* } while (match(",", input)), lines 254 and 167, q being what match
\* returned: the loop goes round again or is left.
While(h, q) == Step(q.s, h, Goto(IF q.ret THEN "loop" ELSE "close"), "none")

\* The closing bracket or brace, lines 256-259 and 170-174, q being what
\* match returned.
Close(q) == Step(q.s, heap, Pop, Str(q.ret))

\* return r;
Return(inp, hp, r) == Step(inp, hp, Pop, Str(r))
\* A call of fn on the object at self; the caller resumes at pc.
Call(inp, hp, caller, fn, self) == Step(inp, hp, Append(caller, Frame(fn, self)), "none")

(***************************************************************************)
(* bool Value::parse(std::istream& input, Value& value), lines 191-229      *)
(***************************************************************************)
\* Lines 214-222: neither a scalar nor, yet, an array or an object; pk is
\* what input.peek() returned.
Value_parse_peek(a, h, pk) ==
    IF pk.c = LBRACKET
    THEN Call(pk.s, [Append(h, NewArray) EXCEPT ![a].ptr = Len(h) + 1],
              Goto("array"), "Array", Len(h) + 1)
    ELSE Call(pk.s, [Append(h, NewObject) EXCEPT ![a].ptr = Len(h) + 1],
              Goto("object"), "Object", Len(h) + 1)

\* Lines 210-213, r being what parse_null returned.
Value_parse_null(a, h, r) ==
    IF r.ret THEN Return(r.s, [h EXCEPT ![a].type_ = "NULL_"], TRUE)
    ELSE Value_parse_peek(a, h, Peek(r.s))

\* Lines 206-209, r being what parse_bool returned.
Value_parse_bool(a, h, r) ==
    IF r.ret THEN Return(r.s, [h EXCEPT ![a].bool = r.val, ![a].type_ = "BOOL_"], TRUE)
    ELSE Value_parse_null(a, [h EXCEPT ![a].bool = r.val], parse_null(r.s))

\* Lines 201-204, r being what parse_number returned.
Value_parse_number(a, h, r) ==
    IF r.ret THEN Return(r.s, [h EXCEPT ![a].num = r.val, ![a].type_ = "NUMBER_"], TRUE)
    ELSE Value_parse_bool(a, [h EXCEPT ![a].num = r.val], parse_bool(r.s, h[a].bool))

\* Lines 194-200, r being what parse_string returned.
Value_parse_string(a, h, r) ==
    IF r.ret
    THEN Return(r.s,
                [Append(h, [NewString EXCEPT !.str = r.value])
                     EXCEPT ![a].ptr = Len(h) + 1, ![a].type_ = "STRING_"],
                TRUE)
    ELSE Value_parse_number(a, h, parse_number(r.s, h[a].num))

\* Lines 192-223: reset, the four scalar attempts, and the call of
\* Array::parse or Object::parse.
Value_parse_start ==
    /\ At("Value", "start")
    /\ \E ch0 \in Uninit :
        Value_parse_string(Top.self, reset(heap, Top.self), parse_string(input, ch0, <<>>))

\* Lines 216-223: Array::parse has returned.
Value_parse_array ==
    /\ At("Value", "array")
    /\ LET a == Top.self
           h1 == Delete(heap, heap[a].ptr)
           new == Len(heap) + 1
       IN  IF ret = "true" THEN Return(input, [heap EXCEPT ![a].type_ = "ARRAY_"], TRUE)
           ELSE Call(input, [Append(h1, NewObject) EXCEPT ![a].ptr = new],
                     Goto("object"), "Object", new)

\* Lines 223-228: Object::parse has returned.
Value_parse_object ==
    /\ At("Value", "object")
    /\ LET a == Top.self
       IN  IF ret = "true" THEN Return(input, [heap EXCEPT ![a].type_ = "OBJECT_"], TRUE)
           ELSE Return(input, Delete(heap, heap[a].ptr), FALSE)

(***************************************************************************)
(* bool Array::parse(std::istream& input, Array& array), lines 240-260      *)
(***************************************************************************)
\* Lines 243-245, q being what match("[", input) returned.
Array_parse_open(h, q) ==
    IF ~q.ret THEN Return(q.s, h, FALSE) ELSE Step(q.s, h, Goto("loop"), "none")

\* Lines 241-245.
Array_parse_start ==
    /\ At("Array", "start")
    /\ Array_parse_open([heap EXCEPT ![Top.self].values_ = <<>>],
                        match(PatLBracket, input))

\* Lines 248-249: a new Value, and the call of Value::parse on it.
Array_parse_loop ==
    /\ At("Array", "loop")
    /\ LET new == Len(heap) + 1
       IN  Call(input, Append(heap, NewValue),
                [stack EXCEPT ![Len(stack)].pc = "element", ![Len(stack)].v = new],
                "Value", new)

\* An Array::parse that keeps the Value whose parse failed.
Array_parse_element_keep ==
    /\ At("Array", "element")
    /\ IF ret # "true"
       THEN Step(input, [heap EXCEPT ![Top.self].values_ = Append(@, Top.v)],
                 Goto("close"), "none")
       ELSE While([heap EXCEPT ![Top.self].values_ = Append(@, Top.v)],
                  match(PatComma, input))

\* Lines 249-254: Value::parse has returned.
Array_parse_element ==
    /\ At("Array", "element")
    /\ IF ret # "true" THEN Step(input, Delete(heap, Top.v), Goto("close"), "none")
       ELSE While([heap EXCEPT ![Top.self].values_ = Append(@, Top.v)],
                  match(PatComma, input))

\* Lines 256-259.
Array_parse_close ==
    /\ At("Array", "close")
    /\ Close(match(PatRBracket, input))

(***************************************************************************)
(* bool Object::parse(std::istream& input, Object& object), lines 139-175   *)
(***************************************************************************)
\* Lines 145-147, c being what match("}", input) returned.
Object_parse_empty(h, c) ==
    IF c.ret THEN Return(c.s, h, TRUE) ELSE Step(c.s, h, Goto("loop"), "none")

\* Lines 142-147, o being what match("{", input) returned.
Object_parse_open(h, o) ==
    IF ~o.ret THEN Return(o.s, h, FALSE)
    ELSE Object_parse_empty(h, match(PatRBrace, o.s))

\* Lines 140-147.
Object_parse_start ==
    /\ At("Object", "start")
    /\ Object_parse_open([heap EXCEPT ![Top.self].value_map_ = <<>>],
                         match(PatLBrace, input))

\* Lines 152-156: no key; lenient, a closing brace may follow a comma.
Object_parse_nokey(k, pk) ==
    IF ~strict /\ pk.c = RBRACE THEN Step(pk.s, heap, Goto("close"), "none")
    ELSE Return((IF strict THEN k.s ELSE pk.s), heap, FALSE)

\* Lines 158-162, c being what match(":", input) returned.
Object_parse_colon(k, c) ==
    IF ~c.ret THEN Return(c.s, heap, FALSE)
    ELSE Call(c.s, Append(heap, NewValue),
              [stack EXCEPT ![Len(stack)].pc = "member", ![Len(stack)].v = Len(heap) + 1,
                            ![Len(stack)].key = k.value],
              "Value", Len(heap) + 1)

\* Lines 151-158, k being what parse_string returned.
Object_parse_key(k) ==
    IF ~k.ret THEN Object_parse_nokey(k, Peek(k.s))
    ELSE Object_parse_colon(k, match(PatColon, k.s))

\* Lines 150-162: the key, the colon, a new Value and the call of
\* Value::parse on it.
Object_parse_loop ==
    /\ At("Object", "loop")
    /\ \E ch0 \in Uninit : Object_parse_key(parse_string(input, ch0, <<>>))

\* Lines 162-167: Value::parse has returned.
Object_parse_member ==
    /\ At("Object", "member")
    /\ IF ret # "true" THEN Step(input, Delete(heap, Top.v), Goto("close"), "none")
       ELSE While([heap EXCEPT ![Top.self].value_map_ = MapAssign(@, Top.key, Top.v)],
                  match(PatComma, input))

\* Lines 170-174.
Object_parse_close ==
    /\ At("Object", "close")
    /\ Close(match(PatRBrace, input))

(***************************************************************************)
(* The caller.  It calls one function of the library on one stream: match, *)
(* parse_string and parse_number (declared at lines 15-17), or the parse   *)
(* of a Value, an Array or an Object it has constructed.  match and        *)
(* parse_string run one loop iteration per step here; inside the parsers   *)
(* they run to their return within the step that calls them.               *)
(***************************************************************************)
NoMatch == [cur |-> 0, ch |-> 0, pc |-> "none", ret |-> FALSE]
NoString == [ch |-> 0, delimiter |-> 0, value |-> <<>>, pc |-> "none", ret |-> FALSE]
NoXml == [format |-> "none", text |-> <<>>]
NoFirst == [root |-> 0, text |-> <<>>]

\* The step of a frame f of match or parse_string.
LeafStep(f) ==
    /\ input' = f.s
    /\ ret' = IF f.pc = "ret" THEN Str(f.ret) ELSE "none"
    /\ steps' = steps + 1
    /\ UNCHANGED <<strict, charSigned, scen, pattern, heap, stack, root, first, calls,
                   out, xml>>

\* The caller's view of match after a step: the stream, and the locals in m.
match_step(f) ==
    /\ m' = [cur |-> f.cur, ch |-> f.ch, pc |-> f.pc, ret |-> f.ret]
    /\ LeafStep(f)
    /\ UNCHANGED ps

\* The same for parse_string, its locals in ps.
parse_string_step(f) ==
    /\ ps' = [ch |-> f.ch, delimiter |-> f.delimiter, value |-> f.value,
              pc |-> f.pc, ret |-> f.ret]
    /\ LeafStep(f)
    /\ UNCHANGED m

match_call ==
    /\ scen = "match" /\ m.pc = "call"
    /\ match_step(match_begin(pattern, input))

match_iteration ==
    /\ scen = "match" /\ m.pc = "loop"
    /\ match_step(match_body(pattern, [s |-> input, cur |-> m.cur, ch |-> m.ch,
                                       pc |-> m.pc, ret |-> m.ret]))

parse_string_call ==
    /\ scen = "parse_string" /\ ps.pc = "call"
    /\ \E ch0 \in Uninit :
        parse_string_step(parse_string_begin(input, ch0, <<>>))

parse_string_iteration ==
    /\ scen = "parse_string" /\ ps.pc = "loop"
    /\ parse_string_step(
           parse_string_body([s |-> input, ch |-> ps.ch, delimiter |-> ps.delimiter,
                              value |-> ps.value, pc |-> ps.pc, ret |-> ps.ret]))

parse_number_step(r) == Step(r.s, [heap EXCEPT ![root].num = r.val], stack, Str(r.ret))

parse_number_call ==
    /\ scen = "parse_number" /\ ret = "none"
    /\ parse_number_step(parse_number(input, heap[root].num))

(***************************************************************************)
(* The texts the caller's stream holds.                                    *)
(***************************************************************************)
Strings(alphabet, n) == UNION {[1..k -> alphabet] : k \in 0..n}

Patterns ==
    {PatTrue, PatFalse, PatNull, PatDQuote, PatLBrace, PatRBrace, PatLBracket,
     PatRBracket, PatComma, PatColon}

Prefixes(t) == {SubSeq(t, 1, k) : k \in 0..Len(t)}

MatchTexts ==
    Strings({SP, LOWER_N, Ord("u"), Ord("l"), LOWER_T}, MaxLeafLen)
        \cup UNION {Prefixes(Bytes(t)) : t \in {" null,", "nullx", "true]", "trux", " false", "falsx"}}

StringTexts ==
    Strings({DQUOTE, SQUOTE, BACKSLASH, LOWER_N, SP}, MaxLeafLen)
        \cup UNION {Prefixes(Bytes(t)) :
                       t \in {"\"a\\nb\"", "'a\\'b' ", "\"\\\"\\\\\\/\\b\\f\\r\\t\\u\"", " \"x\"]"}}

NumberTexts ==
    Strings({SP, MINUS, DOT, LOWER_E, Ord("1"), Ord("x")}, MaxNumLen)
        \cup UNION {Prefixes(Bytes(t)) : t \in {"-12.5e+1,", " 1e-2]", "true", "+.e", "1234567 "}}

\* Documents, well-formed and not; every truncation of each is an input too.
Documents ==
    {"[]", "{}", "[1,2,]", "[1,,2]", "{'a':1,}", "{\"a\":1,}", "{\"b\":2,\"a\":1}",
     "{\"a\":1,\"a\":2}", "\"a\\nb\"", "[1, \"x\", true, null]", "null", "-true",
     "[[1],{\"a\":[]}]", "{\"a\":{\"b\":null}}", "[-]", "{\"a\":}", "{\"a\":1 \"b\":2}",
     " [ 1 , 2 ] ", "[false,]", "{\"a\":[1,],}", "[1e]", "{,}", "[null,]", "{\"a\":,\"b\":1}"}

\* Array texts: the elements es with a comma between two, then a trailing
\* comma or none, then the closing bracket or none.
Elements == {Bytes("1"), PatTrue, Bytes("\"x\"")}
ElementSeqs == Strings(Elements, MaxElems) \ {<<>>}

ArrayText(es, trailing, closed) ==
    PatLBracket
        \o Concat([i \in 1..Len(es) |-> (IF i > 1 THEN PatComma ELSE <<>>) \o es[i]])
        \o (IF trailing THEN PatComma ELSE <<>>)
        \o (IF closed THEN PatRBracket ELSE <<>>)

ArrayTexts ==
    {ArrayText(es, trailing, closed) \o rest :
        es \in ElementSeqs, trailing \in BOOLEAN, closed \in BOOLEAN,
        rest \in {<<>>, PatRBrace}}

ParseTexts ==
    Strings({LBRACKET, RBRACKET, COMMA, Ord("1"), LOWER_N}, MaxLen)
        \cup UNION {Prefixes(Bytes(t)) : t \in Documents}
        \cup ArrayTexts

Scalars(sc, text, st, sign) ==
    /\ scen = sc
    /\ strict = st
    /\ charSigned = sign
    /\ input = Stream(text)
    /\ ret = "none"
    /\ first = NoFirst
    /\ calls = 1
    /\ out = <<>>
    /\ xml = NoXml
    /\ steps = 0

InitMatch ==
    \E pat \in Patterns, text \in MatchTexts :
        /\ Scalars("match", text, TRUE, TRUE)
        /\ pattern = pat
        /\ m = [NoMatch EXCEPT !.pc = "call"]
        /\ ps = NoString
        /\ heap = <<>> /\ stack = <<>> /\ root = 0

InitString ==
    \E text \in StringTexts, st \in BOOLEAN :
        /\ Scalars("parse_string", text, st, TRUE)
        /\ pattern = <<>>
        /\ m = NoMatch
        /\ ps = [NoString EXCEPT !.pc = "call"]
        /\ heap = <<>> /\ stack = <<>> /\ root = 0

InitNumber ==
    \E text \in NumberTexts :
        /\ Scalars("parse_number", text, TRUE, TRUE)
        /\ pattern = <<>>
        /\ m = NoMatch
        /\ ps = NoString
        /\ heap = <<NewValue>> /\ stack = <<>> /\ root = 1

Kind(sc) ==
    IF sc = "Value::parse" THEN "Value" ELSE IF sc = "Array::parse" THEN "Array" ELSE "Object"

\* The caller constructs the object and calls its parse on the stream.
InitParse(texts, signs) ==
    \E sc \in {"Value::parse", "Array::parse", "Object::parse"}, text \in texts,
       st \in BOOLEAN, sign \in signs :
        /\ Scalars(sc, text, st, sign)
        /\ pattern = <<>>
        /\ m = NoMatch
        /\ ps = NoString
        /\ heap = <<Cell(Kind(sc))>>
        /\ stack = <<Frame(Kind(sc), 1)>>
        /\ root = 1

Init == InitMatch \/ InitString \/ InitNumber \/ InitParse(ParseTexts, {TRUE})

Parse ==
    \/ Value_parse_start
    \/ Value_parse_array
    \/ Value_parse_object
    \/ Array_parse_start
    \/ Array_parse_loop
    \/ Array_parse_element
    \/ Array_parse_close
    \/ Object_parse_start
    \/ Object_parse_loop
    \/ Object_parse_member
    \/ Object_parse_close

Next ==
    \/ match_call
    \/ match_iteration
    \/ parse_string_call
    \/ parse_string_iteration
    \/ parse_number_call
    \/ Parse

Spec == Init /\ [][Next]_vars

(***************************************************************************)
(* The caller parses again into the object it has parsed into before.      *)
(***************************************************************************)
ReparseTexts ==
    {Bytes(t) : t \in {"\"a\"", "1", "true", "null", "x", "", "[1,\"b\"]", "[1,", "[[1]]",
                       "{\"a\":1}", "{\"a\":1,\"a\":2}", "{\"a\":[1]}", "{\"a\":\"b\"",
                       "{\"a\":1,\"b\":}"}}

\* The next call of parse on the object at root.
Reparse ==
    /\ stack = <<>>
    /\ calls < MaxCalls
    /\ \E text \in ReparseTexts :
        /\ input' = Stream(text)
        /\ stack' = <<Frame(heap[root].kind, root)>>
        /\ ret' = "none"
        /\ calls' = calls + 1
        /\ steps' = 0
        /\ UNCHANGED <<strict, charSigned, scen, pattern, m, ps, heap, root, first, out, xml>>

InitReparse == InitParse(ReparseTexts, {TRUE})

NextReparse == Parse \/ Reparse

SpecReparse == InitReparse /\ [][NextReparse]_vars

(***************************************************************************)
(* The caller serializes what it has parsed, and parses the text written   *)
(* into a second object of the same class.                                 *)
(***************************************************************************)
\* stream << *root
Serialize ==
    /\ stack = <<>>
    /\ ret # "false"
    /\ out = <<>>
    /\ out' = (IF heap[root].kind = "Value" THEN stream_Value(heap, root)
               ELSE IF heap[root].kind = "Array" THEN stream_Array(heap, root)
               ELSE stream_Object(heap, root))
    /\ UNCHANGED <<strict, charSigned, scen, pattern, input, m, ps, heap, stack, ret, root,
                   first, calls, xml, steps>>

\* The headers and root attributes the caller passes: the defaults (empty)
\* and an override of each.
XmlHeaders == {<<>>, Bytes("<?xml?>")}
XmlAttribs == {<<>>, Bytes(" id=\"r\"")}

\* root->xml(format, header, attrib)
Xml ==
    /\ stack = <<>>
    /\ ret = "true"
    /\ heap[root].kind \in {"Array", "Object"}
    /\ xml = NoXml
    /\ \E format \in {"jsonx", "jxml"}, header \in XmlHeaders, attrib \in XmlAttribs :
        xml' = [format |-> format, text |-> xml_of(heap, root, format, header, attrib)]
    /\ UNCHANGED <<strict, charSigned, scen, pattern, input, m, ps, heap, stack, ret, root,
                   first, calls, out, steps>>

\* A second object is constructed and its parse called on the text written.
ParseSerialized ==
    /\ stack = <<>>
    /\ calls = 1
    /\ out # <<>>
    /\ first' = [root |-> root, text |-> input.buf]
    /\ root' = Len(heap) + 1
    /\ heap' = Append(heap, Cell(heap[root].kind))
    /\ input' = Stream(out)
    /\ stack' = <<Frame(heap[root].kind, Len(heap) + 1)>>
    /\ ret' = "none"
    /\ calls' = 2
    /\ steps' = 0
    /\ UNCHANGED <<strict, charSigned, scen, pattern, m, ps, out, xml>>

Keys == {Bytes("a"), Bytes("b"), Bytes("ab"), Bytes("B")}

\* The object text with the keys ks in this order, the i-th with the value i.
KeyDocument(ks) ==
    PatLBrace
        \o Concat([i \in 1..Len(ks) |->
                      (IF i > 1 THEN <<COMMA>> ELSE <<>>)
                          \o <<DQUOTE>> \o ks[i] \o <<DQUOTE, COLON, DIGIT0 + i>>])
        \o PatRBrace

KeyDocuments == {KeyDocument(ks) : ks \in Strings(Keys, MaxKeys)}

\* Well-formed JSON documents.
ValidDocuments ==
    {Bytes(t) : t \in {"[]", "{}", "{\"b\":2,\"a\":1}", "{\"b\":2,\"c\":3,\"a\":1}",
                       "\"a\\nb\"", "[1, \"x\", true, null]", "null", "false", "-12",
                       "1234567", "120", "[[1],{\"a\":[]}]", "{\"a\":{\"c\":null,\"b\":\"<x>\"}}",
                       "\"\\\"\\\\\\/\\b\\f\\r\\t\"", "{\"a\\\"\":[true]}", " [ 1 , 2 ] "}}
        \cup {<<DQUOTE, 195, 169, DQUOTE>>, <<LBRACKET, DQUOTE, 127, 128, DQUOTE, RBRACKET>>}

SerializeTexts ==
    ValidDocuments \cup KeyDocuments
        \cup {Bytes(t) : t \in {"[1,2,]", "{\"a\":1,}", "{'b':1,'a':2}", "[1,,2]", "{\"a\":1"}}

InitSerialize == InitParse(SerializeTexts, BOOLEAN)

NextSerialize == Parse \/ Serialize \/ Xml \/ ParseSerialized

SpecSerialize == InitSerialize /\ [][NextSerialize]_vars

(***************************************************************************)
(* The caller serializes a Value it has built: a String of any bytes.      *)
(***************************************************************************)
EscapeStrings == Strings(Byte, 1) \cup {<<7, 200>>, <<200, 34, 65>>, <<31, 32, 127, 128>>}

InitEscape ==
    \E str \in EscapeStrings, sign \in BOOLEAN :
        /\ Scalars("operator<<", <<>>, TRUE, sign)
        /\ pattern = <<>>
        /\ m = NoMatch
        /\ ps = NoString
        /\ heap = <<[NewValue EXCEPT !.type_ = "STRING_", !.ptr = 2],
                    [NewString EXCEPT !.str = str]>>
        /\ stack = <<>>
        /\ root = 1

SpecEscape == InitEscape /\ [][Serialize]_vars

(***************************************************************************)
(* Observations the properties are stated with.                            *)
(***************************************************************************)
\* The parse the caller called has returned.
Returned == stack = <<>> /\ ret # "none"

\* The text as it is after the leading whitespace is skipped.
AfterWs(text) == SubSeq(text, WsEnd(text, 1), Len(text))

StartsWith(text, p) == Len(text) >= Len(p) /\ SubSeq(text, 1, Len(p)) = p

Leaf(type, num, bool, str) ==
    [type |-> type, num |-> num, bool |-> bool, str |-> str, elems |-> <<>>, keys |-> <<>>]

Node(type, elems, keys) ==
    [type |-> type, num |-> Zero, bool |-> FALSE, str |-> <<>>, elems |-> elems, keys |-> keys]

RECURSIVE TreeOf(_, _)
\* The tree below the Value, Array or Object at a: the variant, its payload,
\* and the trees of the children in the order the container's iteration
\* visits them (with their keys, for an Object).
TreeOf(h, a) ==
    IF h[a].kind = "Array"
    THEN Node("ARRAY_", [i \in 1..Len(h[a].values_) |-> TreeOf(h, h[a].values_[i])], <<>>)
    ELSE IF h[a].kind = "Object"
    THEN Node("OBJECT_",
              [i \in 1..Len(h[a].value_map_) |-> TreeOf(h, h[a].value_map_[i].second)],
              [i \in 1..Len(h[a].value_map_) |-> h[a].value_map_[i].first])
    ELSE IF h[a].type_ \in {"ARRAY_", "OBJECT_"} THEN TreeOf(h, h[a].ptr)
    ELSE IF h[a].type_ = "NUMBER_"
    THEN Leaf("NUMBER_", (IF h[a].num.m = 0 THEN Zero ELSE h[a].num), FALSE, <<>>)
    ELSE IF h[a].type_ = "BOOL_" THEN Leaf("BOOL_", Zero, h[a].bool, <<>>)
    ELSE IF h[a].type_ = "STRING_" THEN Leaf("STRING_", Zero, FALSE, h[h[a].ptr].str)
    ELSE Leaf(h[a].type_, Zero, FALSE, <<>>)

Number(n) == Leaf("NUMBER_", [neg |-> FALSE, m |-> n, e |-> 0], FALSE, <<>>)

IsAscending(q) == \A i \in 1..(Len(q) - 1) : StrLess(q[i], q[i + 1])

Range(q) == {q[i] : i \in 1..Len(q)}

RECURSIVE Split(_, _)
\* The pieces of text between the occurrences of sep.
Split(text, sep) ==
    IF \A i \in 1..Len(text) : text[i] # sep THEN <<text>>
    ELSE <<SubSeq(text, 1, (CHOOSE i \in 1..Len(text) :
                               text[i] = sep /\ \A j \in 1..(i - 1) : text[j] # sep) - 1)>>
             \o Split(SubSeq(text, (CHOOSE i \in 1..Len(text) :
                                       text[i] = sep /\ \A j \in 1..(i - 1) : text[j] # sep) + 1,
                             Len(text)), sep)

\* The quoted strings of a text without escapes, in order.
QuotedOf(pieces) == [i \in 1..(Len(pieces) \div 2) |-> pieces[2 * i]]
Quoted(text) == QuotedOf(Split(text, DQUOTE))

IsChildLine(line) == line # <<>> /\ line[1] = TAB

\* The names of the tags at depth 1 of an XML text, in order: the name="..."
\* of jsonx, and what follows the type and the colon in the son="..." of jxml.
XmlName(format, line) ==
    IF format = "jxml" THEN SubSeq(Quoted(line)[1], 3, Len(Quoted(line)[1]))
    ELSE Quoted(line)[1]

XmlNamesOf(format, lines) == [i \in 1..Len(lines) |-> XmlName(format, lines[i])]

XmlNames(x) == XmlNamesOf(x.format, SelectSeq(Split(x.text, LF), IsChildLine))

\* The entries of the container at c: the Values it points at.
Entries(h, c) ==
    IF h[c].kind = "Array" THEN h[c].values_
    ELSE IF h[c].kind = "Object"
    THEN [i \in 1..Len(h[c].value_map_) |-> h[c].value_map_[i].second]
    ELSE <<>>

\* The number of entries of live containers that point at a.
Refs(h, a) ==
    Cardinality({e \in UNION {{<<c, i>> : i \in 1..Len(Entries(h, c))} :
                                 c \in {d \in DOMAIN h : h[d].alive}} :
                    Entries(h, e[1])[e[2]] = a})

(***************************************************************************)
(* The properties.                                                         *)
(***************************************************************************)
\* C1: round trip.  Value::parse succeeds on every well-formed document,
\* and for every well-formed document that was parsed and serialized, the
\* parse of the text written succeeds and yields a tree equal to the first,
\* variant by variant and recursively.
C1_RoundTrip ==
    /\ (scen = "Value::parse" /\ calls = 1 /\ Returned /\ input.buf \in ValidDocuments)
           => ret = "true"
    /\ (calls = 2 /\ Returned /\ first.text \in ValidDocuments)
           => (ret = "true" /\ TreeOf(heap, root) = TreeOf(heap, first.root))

\* C2: when match has returned false, the remaining input is the input as
\* it was after the leading whitespace; when it has returned true, the input
\* after the whitespace began with the pattern and the remaining input is
\* what followed it.
C2_MatchRestoresCursor ==
    (scen = "match" /\ m.pc = "ret") =>
        IF m.ret
        THEN /\ StartsWith(AfterWs(input.buf), pattern)
             /\ Rest(input) = SubSeq(AfterWs(input.buf), Len(pattern) + 1,
                                     Len(AfterWs(input.buf)))
        ELSE Rest(input) = AfterWs(input.buf)

\* C3: the strict flag gates the lenient fallbacks.  Strict: parse_string
\* accepts only a text that opens with a double quote, a Value becomes Null
\* only from the token null, and {'a':1,}, {"a":1,} and [1,,2] are rejected.
\* Lenient: a single-quoted string is accepted, {'a':1,} is the object with
\* the single key a, and [1,,2] is the array 1, null, 2.
C3_StrictGatesFallbacks ==
    /\ (scen = "parse_string" /\ ps.pc = "ret" /\ ps.ret /\ strict)
           => StartsWith(AfterWs(input.buf), PatDQuote)
    /\ (scen = "parse_string" /\ ps.pc = "ret" /\ ~strict /\ input.buf = Bytes("'a\\'b' "))
           => (ps.ret /\ ps.value = Bytes("a'b"))
    /\ (scen = "Value::parse" /\ Returned /\ strict /\ ret = "true"
            /\ heap[root].type_ = "NULL_")
           => StartsWith(AfterWs(input.buf), PatNull)
    /\ (Returned /\ strict
            /\ input.buf \in {Bytes("{'a':1,}"), Bytes("{\"a\":1,}"), Bytes("[1,,2]")})
           => ret = "false"
    /\ (scen \in {"Value::parse", "Object::parse"} /\ Returned /\ ~strict
            /\ input.buf = Bytes("{'a':1,}"))
           => (ret = "true"
               /\ TreeOf(heap, root) = Node("OBJECT_", <<Number(1)>>, <<Bytes("a")>>))
    /\ (scen \in {"Value::parse", "Array::parse"} /\ Returned /\ ~strict
            /\ input.buf = Bytes("[1,,2]"))
           => (ret = "true"
               /\ TreeOf(heap, root)
                      = Node("ARRAY_", <<Number(1), Leaf("NULL_", Zero, FALSE, <<>>), Number(2)>>,
                             <<>>))

\* C4: in both modes, Array::parse of the elements es followed by one comma
\* and the closing bracket returns true with exactly the elements es, in
\* order; without the closing bracket it returns false, with the trailing
\* comma and without.
C4_ArrayTrailingComma ==
    (scen = "Array::parse" /\ Returned) =>
        \A es \in ElementSeqs :
            /\ input.buf = ArrayText(es, TRUE, TRUE) =>
                   /\ ret = "true"
                   /\ Len(heap[root].values_) = Len(es)
                   /\ \A i \in 1..Len(es) :
                          stream_Value(heap, heap[root].values_[i]) = es[i]
            /\ \A trailing \in BOOLEAN, rest \in {<<>>, PatRBrace} :
                   input.buf = ArrayText(es, trailing, FALSE) \o rest => ret = "false"

\* C4, its case: strict, two elements and a trailing comma, parsed to two
\* elements.
C4_Witness ==
    /\ scen = "Array::parse" /\ Returned /\ strict /\ ret = "true"
    /\ \E es \in ElementSeqs : Len(es) = 2 /\ input.buf = ArrayText(es, TRUE, TRUE)
    /\ Len(heap[root].values_) = 2

\* C5: when Value::parse has returned false the Value's tag is INVALID_,
\* whatever it held before, and after any sequence of parse calls a tag of
\* STRING_, OBJECT_ or ARRAY_ goes with a payload that is still allocated.
C5_InvalidAfterFailure ==
    (scen = "Value::parse" /\ stack = <<>>) =>
        /\ ret = "false" => heap[root].type_ = "INVALID_"
        /\ heap[root].type_ \in {"STRING_", "OBJECT_", "ARRAY_"}
               => heap[heap[root].ptr].alive

\* C6: a call has taken a number of steps bounded by the length of its
\* input, and no get() has been made on a stream with no character left.
C6_ReadsChecked == steps <= 8 * Len(input.buf) + 8 /\ ~input.underflow

\* C7: when parse_number has returned false, the stream's fail indicator is
\* cleared and the remaining input is the input as it was after the leading
\* whitespace.
C7_FailedNumberLeavesInput ==
    (scen = "parse_number" /\ ret = "false") =>
        (Ok(input) /\ Rest(input) = AfterWs(input.buf))

Listed(q, ks) == IsAscending(q) /\ Range(q) = Range(ks)

\* C8: the entries of every Object are in strictly ascending key order; for
\* an object text with the keys ks in any order, the JSON text written and
\* the tags of the XML text list each key of ks once, in ascending byte
\* order; and {"b":2,"a":1} is written as {"a": 1, "b": 2}.
C8_KeysAscending ==
    /\ \A a \in DOMAIN heap :
           heap[a].kind = "Object" => IsAscending(TreeOf(heap, a).keys)
    /\ (scen = "Object::parse" /\ calls = 1 /\ stack = <<>>) =>
           \A ks \in Strings(Keys, MaxKeys) :
               input.buf = KeyDocument(ks) =>
                   /\ out # <<>> => Listed(Quoted(out), ks)
                   /\ xml # NoXml => Listed(XmlNames(xml), ks)
    /\ (calls = 1 /\ out # <<>> /\ input.buf = Bytes("{\"b\":2,\"a\":1}"))
           => out = Bytes("{\"a\": 1, \"b\": 2}")

\* C8, its case: the keys b, a in this order, parsed, and written as JSON
\* and as XML.
C8_Witness ==
    /\ scen = "Object::parse" /\ calls = 1 /\ stack = <<>>
    /\ input.buf = KeyDocument(<<Bytes("b"), Bytes("a")>>)
    /\ Quoted(out) = <<Bytes("a"), Bytes("b")>>
    /\ xml.format = "jxml" /\ XmlNames(xml) = <<Bytes("a"), Bytes("b")>>

\* C9: when the parse the caller called has returned, every child Value
\* allocated so far is deleted or is pointed at by exactly one entry of one
\* live container.
C9_NoChildLost ==
    stack = <<>> =>
        \A a \in DOMAIN heap :
            (heap[a].kind = "Value" /\ a # root)
                => (~heap[a].alive \/ Refs(heap, a) = 1)

\* What C10 says stream_string writes for the byte b.
C10_Escape(b) ==
    IF b \in {DQUOTE, BACKSLASH, SLASH} THEN <<BACKSLASH, b>>
    ELSE IF b = BS THEN <<BACKSLASH, LOWER_B>>
    ELSE IF b = FF THEN <<BACKSLASH, LOWER_F>>
    ELSE IF b = LF THEN <<BACKSLASH, LOWER_N>>
    ELSE IF b = CR THEN <<BACKSLASH, LOWER_R>>
    ELSE IF b = TAB THEN <<BACKSLASH, LOWER_T>>
    ELSE IF b < SP
    THEN <<BACKSLASH, LOWER_U, DIGIT0, DIGIT0, DIGIT0, DIGIT0,
           HexDigit(b \div 16), HexDigit(b % 16)>>
    ELSE <<b>>

\* C10: the text written for a String is, between two double quotes, for
\* each byte b of 0..255 its two-character escape, or \u and six lowercase
\* hex digits of b when b is below 32, or b itself, on every build.
C10_EscapingByByte ==
    (scen = "operator<<" /\ out # <<>>) =>
        out = <<DQUOTE>>
                  \o Concat([i \in 1..Len(heap[heap[root].ptr].str) |->
                                C10_Escape(heap[heap[root].ptr].str[i])])
                  \o <<DQUOTE>>

====
